---- MODULE Spec2Model ----
(***************************************************************************)
(* The 2+1D pouch cell pipeline of                                         *)
(* results/2019_xx_2plus1D_pouch/2plus1D/pouch_cell_model.py:              *)
(* parameters -> geometry -> mesh -> discretisation -> solve ->            *)
(* ProcessedVariable binding -> plot(t).                                   *)
(*                                                                         *)
(* The script's own statements (their order, their arguments, the index    *)
(* search in plot) are modelled from the source.  The pybamm calls it      *)
(* makes (ParameterValues.evaluate, Mesh, Discretisation, CasadiSolver,    *)
(* ProcessedVariable) are modelled from the specification's contracts      *)
(* (sections 4.1 - 4.6).                                                   *)
(*                                                                         *)
(* Times and coordinates are integers (ticks); linspace rounds down.       *)
(***************************************************************************)
EXTENDS Integers, Sequences, FiniteSets

VARIABLES
    pc,         \* the script statement to run next
    store,      \* param: the Parameter Set (name -> expression)
    var_pts,    \* requested point counts per spatial variable
    submesh_types, \* submesh type per domain
    geometry,   \* processed geometry (numeric extents) or None
    mesh,       \* pybamm.Mesh or None
    disc,       \* the discretised model (state vector layout) or None
    tau,        \* discharge timescale or None
    t_eval,     \* requested sample times or None
    solution,   \* the Solution or None
    pvs,        \* the ProcessedVariables bound so far (names)
    plotgrid,   \* l_y, l_z, y_plot, z_plot, tab markers or None
    plt,        \* plot(t): requested t, ind, and the queries made so far
    err,        \* the uncaught exception that ended the run, or None
    log,        \* stage executions so far: <<[stage, reads]>>
    solveCalls, \* number of solver.solve invocations
    caller      \* an independent caller's ProcessedVariable queries

vars == <<pc, store, var_pts, submesh_types, geometry, mesh, disc, tau, t_eval,
          solution, pvs, plotgrid, plt, err, log, solveCalls, caller>>

None == "None"

----------------------------------------------------------------------------
(* Program constants of the script *)

NumTEval == 120
NumPlot == 21
HourSeconds == 3600
PlotSeconds == 800

(* Model bounds *)

\* extent of the current collector plane in ticks (library parameter data)
LY == 140
LZ == 90
\* largest literal of a parameter expression
MaxLit == 2
\* number of distinct solver trajectories
NumSeeds == 2
\* largest number of internal sub-steps the solver inserts per output step
MaxRefine == 2
\* number of queries an independent caller makes
MaxQueries == 1

----------------------------------------------------------------------------
(* numpy helpers used by the script *)

\* np.linspace(a, b, n): n points from a to b inclusive
Linspace(a, b, n) ==
    IF n = 1 THEN <<a>>
    ELSE [i \in 1..n |-> a + ((i - 1) * (b - a)) \div (n - 1)]

Abs(x) == IF x < 0 THEN -x ELSE x

\* ndarray.argmin() over d[lo..hi]: the first smallest entry (the range is
\* halved so that the evaluation stays shallow)
RECURSIVE ArgminRange(_, _, _)
ArgminRange(d, lo, hi) ==
    IF lo >= hi THEN lo
    ELSE LET mid == (lo + hi) \div 2
             l == ArgminRange(d, lo, mid)
             r == ArgminRange(d, mid + 1, hi)
         IN  IF d[r] < d[l] THEN r ELSE l

RECURSIVE ArgminRangeLast(_, _, _)
ArgminRangeLast(d, lo, hi) ==
    IF lo >= hi THEN lo
    ELSE LET mid == (lo + hi) \div 2
             l == ArgminRangeLast(d, lo, mid)
             r == ArgminRangeLast(d, mid + 1, hi)
         IN  IF d[r] <= d[l] THEN r ELSE l

ArgminAbsLast(ts, t) ==
    ArgminRangeLast([i \in 1..Len(ts) |-> Abs(ts[i] - t)], 1, Len(ts))

\* (np.abs(ts - t)).argmin()
ArgminAbs(ts, t) ==
    ArgminRange([i \in 1..Len(ts) |-> Abs(ts[i] - t)], 1, Len(ts))

StrictlyIncreasing(s) == \A i \in 1..(Len(s) - 1) : s[i] < s[i + 1]

----------------------------------------------------------------------------
(* 4.1 Parameter Store: expression trees Literal | NamedRef | BinaryOp *)

Names == {"C-rate", "I_typ", "tau_d"}

Undef == [op |-> "undef", val |-> 0, name |-> "", args |-> <<>>]
Lit(v) == [op |-> "lit", val |-> v, name |-> "", args |-> <<>>]
Ref(n) == [op |-> "ref", val |-> 0, name |-> n, args |-> <<>>]
Bin(f, l, r) == [op |-> "bin", val |-> 0, name |-> f, args |-> <<l, r>>]

Value(v) == [ok |-> TRUE, val |-> v, err |-> None]
Failure(e) == [ok |-> FALSE, val |-> 0, err |-> e]

Apply(f, a, b) == IF f = "+" THEN a + b ELSE a * b

\* evaluate(expr): recursive resolver; resolving = names being resolved
RECURSIVE Resolve(_, _, _)
ResolveMissingAsZero(st, e, resolving) ==
    CASE e.op = "lit" -> Value(e.val)
      [] e.op = "ref" ->
            IF e.name \in resolving THEN Failure("CyclicParameterError")
            ELSE IF st[e.name].op = "undef" THEN Value(0)
            ELSE Resolve(st, st[e.name], resolving \cup {e.name})
      [] e.op = "bin" ->
            LET l == Resolve(st, e.args[1], resolving)
            IN  IF ~l.ok THEN l
                ELSE LET r == Resolve(st, e.args[2], resolving)
                     IN  IF ~r.ok THEN r
                         ELSE Value(Apply(e.name, l.val, r.val))
      [] OTHER -> Failure("UnresolvedParameterError")

ResolveStep(st, e, resolving) ==
    CASE e.op = "lit" -> Value(e.val)
      [] e.op = "ref" ->
            IF e.name \in resolving THEN Failure("CyclicParameterError")
            ELSE IF st[e.name].op = "undef"
                 THEN Failure("UnresolvedParameterError")
            ELSE Resolve(st, st[e.name], resolving \cup {e.name})
      [] e.op = "bin" ->
            LET l == Resolve(st, e.args[1], resolving)
            IN  IF ~l.ok THEN l
                ELSE LET r == Resolve(st, e.args[2], resolving)
                     IN  IF ~r.ok THEN r
                         ELSE Value(Apply(e.name, l.val, r.val))
      [] OTHER -> Failure("UnresolvedParameterError")

Resolve(st, e, resolving) == ResolveStep(st, e, resolving)

Evaluate(st, e) == Resolve(st, e, {})

\* param.update({name: value})
Update(st, n, v) == [st EXCEPT ![n] = Lit(v)]

\* pybamm.standard_parameters_lithium_ion expressions the script evaluates
tau_discharge == Ref("tau_d")
centre_y_tab_p == Ref("I_typ")
centre_z_tab_p == Bin("+", Ref("I_typ"), Lit(1))
l_tab_p == Bin("*", Ref("C-rate"), Lit(2))

----------------------------------------------------------------------------
(* 4.2 / 4.3 Geometry and Mesh *)

SpatialVars1D == {"x_n", "x_s", "x_p", "r_n", "r_p"}
SpatialVars2D == {"y", "z"}

\* var_pts of the script
ScriptVarPts ==
    [x_n |-> 5, x_s |-> 5, x_p |-> 5, r_n |-> 10, r_p |-> 10, y |-> 15, z |-> 10]

Domains1D == {"negative electrode", "separator", "positive electrode",
              "negative particle", "positive particle"}
Domains == Domains1D \cup {"current collector"}

SubMeshes1D == {"Uniform1DSubMesh"}
SubMeshes2D == {"ScikitUniform2DSubMesh"}

\* model.default_submesh_types
DefaultSubmeshTypes ==
    [d \in Domains |-> IF d = "current collector" THEN "ScikitUniform2DSubMesh"
                       ELSE "Uniform1DSubMesh"]

NoGeometry == [set |-> FALSE, l_y |-> 0, l_z |-> 0]
NoMesh == [set |-> FALSE, npts |-> ScriptVarPts, y_nodes |-> <<>>, z_nodes |-> <<>>]

\* param.process_geometry: numeric extents, positive
GeometryOk(ext) == ext.l_y > 0 /\ ext.l_z > 0

\* minimum counts: 2 for a 1D variable, 3 for the 2D planar mesh
MinCount(v) == IF v \in SpatialVars2D THEN 3 ELSE 2

CountsOk(vp) == \A v \in SpatialVars1D \cup SpatialVars2D : vp[v] >= MinCount(v)

TypesOk(smt) ==
    \A d \in Domains :
        IF d = "current collector" THEN smt[d] \in SubMeshes2D
        ELSE smt[d] \in SubMeshes1D

\* pybamm.Mesh(geometry, submesh_types, var_pts)
MeshBuild(geom, smt, vp) ==
    IF ~CountsOk(vp) \/ ~TypesOk(smt)
    THEN [ok |-> FALSE, err |-> "MeshError", mesh |-> NoMesh]
    ELSE [ok |-> TRUE, err |-> None,
          mesh |-> [set |-> TRUE, npts |-> vp,
                    y_nodes |-> Linspace(0, geom.l_y, vp.y),
                    z_nodes |-> Linspace(0, geom.l_z, vp.z)]]

----------------------------------------------------------------------------
(* 4.4 Discretiser: the state vector layout *)

\* the variables the script binds, in the order it binds them
PVNames == <<"Negative current collector potential [V]",
             "Positive current collector potential [V]",
             "Current collector current density [A.m-2]",
             "X-averaged cell temperature [K]">>

PVIndex(name) == CHOOSE i \in 1..Len(PVNames) : PVNames[i] = name

NoDisc == [set |-> FALSE, ny |-> 0, nz |-> 0, size |-> 0]

\* each current collector variable owns ny * nz consecutive rows
Discretise(m) ==
    [set |-> TRUE, ny |-> Len(m.y_nodes), nz |-> Len(m.z_nodes),
     size |-> Len(PVNames) * Len(m.y_nodes) * Len(m.z_nodes)
              + m.npts.x_n + m.npts.x_s + m.npts.x_p + m.npts.r_n + m.npts.r_p]

\* row of the state vector holding variable i at node (iy, iz)
Row(d, i, iy, iz) == (i - 1) * d.ny * d.nz + (iy - 1) * d.nz + iz

----------------------------------------------------------------------------
(* 4.5 DAE Solver *)

NoSolution == [set |-> FALSE, t |-> <<>>, y |-> 0]
NoErr == [type |-> None, partial |-> <<>>]

\* the internal step grid: r - 1 points inserted after every requested time
Refine(te, r) ==
    [k \in 1..((Len(te) - 1) * r + 1) |->
        LET i == ((k - 1) \div r) + 1
            j == (k - 1) % r
        IN  IF j = 0 THEN te[i]
            ELSE te[i] + (j * (te[i + 1] - te[i])) \div r]

\* the samples of the internal grid at the requested times
Resample(internal, te, r) ==
    [i \in 1..Len(te) |-> internal[(i - 1) * r + 1]]

\* solution.y[row, k]: the trajectory picked by the solver
SolY(sol, row, k) == (sol.y * k + 3 * row + k * k) % 17

----------------------------------------------------------------------------
(* 4.6 Field Reconstructor: ProcessedVariable.__call__(y, z, t) *)

Last(s) == s[Len(s)]

\* lowest interval [xs[i], xs[i+1]] holding x, for xs[1] <= x <= Last(xs)
Bracket(xs, x) ==
    IF Len(xs) < 2 THEN 1
    ELSE CHOOSE i \in 1..(Len(xs) - 1) :
            /\ x <= xs[i + 1]
            /\ i = 1 \/ xs[i] < x

Interp1Left(x0, x1, v0, v1, x) == v0

\* linear interpolation between (x0, v0) and (x1, v1)
Interp1(x0, x1, v0, v1, x) ==
    IF x1 = x0 THEN v0
    ELSE (v0 * (x1 - x) + v1 * (x - x0)) \div (x1 - x0)

\* the query lies in the closed mesh extent and the sampled time range
InExtent(m, sol, y, z, t) ==
    /\ m.y_nodes[1] <= y /\ y <= Last(m.y_nodes)
    /\ m.z_nodes[1] <= z /\ z <= Last(m.z_nodes)
    /\ sol.t[1] <= t /\ t <= Last(sol.t)

\* value at time sample k: bilinear over the structured planar mesh
AtSample(sol, m, d, i, y, z, k) ==
    LET iy == Bracket(m.y_nodes, y)
        iz == Bracket(m.z_nodes, z)
        jy == IF Len(m.y_nodes) < 2 THEN iy ELSE iy + 1
        jz == IF Len(m.z_nodes) < 2 THEN iz ELSE iz + 1
        lo == Interp1(m.y_nodes[iy], m.y_nodes[jy],
                      SolY(sol, Row(d, i, iy, iz), k),
                      SolY(sol, Row(d, i, jy, iz), k), y)
        hi == Interp1(m.y_nodes[iy], m.y_nodes[jy],
                      SolY(sol, Row(d, i, iy, jz), k),
                      SolY(sol, Row(d, i, jy, jz), k), y)
    IN  Interp1(m.z_nodes[iz], m.z_nodes[jz], lo, hi, z)

\* pv(y=y, z=z, t=t) for scalar y, z
PVCall(sol, m, d, name, y, z, t) ==
    IF ~InExtent(m, sol, y, z, t) THEN Failure("OutOfDomainError")
    ELSE LET i == PVIndex(name)
             k == Bracket(sol.t, t)
             k2 == IF Len(sol.t) < 2 THEN k ELSE k + 1
         IN  Value(Interp1(sol.t[k], sol.t[k2],
                           AtSample(sol, m, d, i, y, z, k),
                           AtSample(sol, m, d, i, y, z, k2), t))

\* pv(y=ys, z=zs, t=t) for coordinate arrays: fails when any point is outside
PVGridCall(sol, m, d, name, ys, zs, t) ==
    IF \/ \E a \in 1..Len(ys) : ~InExtent(m, sol, ys[a], zs[1], t)
       \/ \E b \in 1..Len(zs) : ~InExtent(m, sol, ys[1], zs[b], t)
    THEN [ok |-> FALSE, err |-> "OutOfDomainError", shape |-> <<0, 0>>,
          corners |-> <<>>]
    ELSE [ok |-> TRUE, err |-> None, shape |-> <<Len(ys), Len(zs)>>,
          corners |-> << PVCall(sol, m, d, name, ys[1], zs[1], t).val,
                         PVCall(sol, m, d, name, Last(ys), zs[1], t).val,
                         PVCall(sol, m, d, name, ys[1], Last(zs), t).val,
                         PVCall(sol, m, d, name, Last(ys), Last(zs), t).val >>]

----------------------------------------------------------------------------
(* The script: one action per statement group, run in source order *)

ScriptOrder == <<"load", "params", "geometry", "mesh", "disc", "tau", "solve",
                 "bind", "grid", "plot", "show", "done">>

Stages == <<"Parameters", "Geometry", "Mesh", "Discretiser", "Solver",
            "FieldReconstructor", "Visualization">>

Rank(stage) == CHOOSE i \in 1..Len(Stages) : Stages[i] = stage

PosIn(order, p) == CHOOSE i \in 1..Len(order) : order[i] = p

\* a variant of the script that discretises before it builds the mesh
SuccDiscFirst(p) ==
    CASE p = "geometry" -> "disc"
      [] p = "disc" -> "mesh"
      [] p = "mesh" -> "tau"
      [] OTHER -> ScriptOrder[PosIn(ScriptOrder, p) + 1]

\* a variant of the script that never calls param.process_geometry
SuccSkipGeometry(p) ==
    IF p = "params" THEN "mesh" ELSE ScriptOrder[PosIn(ScriptOrder, p) + 1]

\* the statement after p
Succ(p) == ScriptOrder[PosIn(ScriptOrder, p) + 1]

OnErrorContinue(p) == ScriptOrder[PosIn(ScriptOrder, p) + 1]

OnErrorRetry(p) == p

\* an exception at module level is not caught anywhere: the run ends
OnError(p) == "aborted"

Raise(e) ==
    /\ pc' = OnError(pc)
    /\ err' = e

Error(type) == [type |-> type, partial |-> <<>>]

Logged(stage, reads) == log' = Append(log, [stage |-> stage, reads |-> reads])

NoPlotGrid == [set |-> FALSE, l_y |-> 0, l_z |-> 0, y_plot |-> <<>>,
               z_plot |-> <<>>, tab_start |-> 0, tab_end |-> 0, z_pos_tab |-> 0]
NoPlot == [active |-> FALSE, t |-> 0, ind |-> 0, queries |-> <<>>]
NoCaller == [n |-> 0, last |-> <<>>]

\* lines 13-17: options, model, default geometry
Load ==
    /\ pc = "load"
    /\ pc' = Succ(pc)
    /\ UNCHANGED <<store, var_pts, submesh_types, geometry, mesh, disc, tau,
                   t_eval, solution, pvs, plotgrid, plt, err, log, solveCalls,
                   caller>>

\* lines 19-22: default parameter values, update C-rate, process_model
ProcessParameters ==
    /\ pc = "params"
    /\ Logged("Parameters", {})
    /\ \E outcome \in {"ok", "UnresolvedParameterError", "CyclicParameterError"} :
         IF outcome = "ok"
         THEN /\ store' = [processed |-> TRUE,
                           values |-> Update(store.values, "C-rate", 1)]
              /\ pc' = Succ(pc)
              /\ err' = err
         ELSE /\ store' = [processed |-> FALSE,
                           values |-> Update(store.values, "C-rate", 1)]
              /\ Raise(Error(outcome))
    /\ UNCHANGED <<var_pts, submesh_types, geometry, mesh, disc, tau, t_eval,
                   solution, pvs, plotgrid, plt, solveCalls, caller>>

ExtentChoices == {[l_y |-> LY, l_z |-> LZ], [l_y |-> 0, l_z |-> LZ]}

\* line 23: param.process_geometry(geometry)
ProcessGeometry ==
    /\ pc = "geometry"
    /\ Logged("Geometry", {"Parameters"})
    /\ \E ext \in ExtentChoices :
         IF GeometryOk(ext)
         THEN /\ geometry' = [set |-> TRUE, l_y |-> ext.l_y, l_z |-> ext.l_z]
              /\ pc' = Succ(pc)
              /\ err' = err
         ELSE /\ geometry' = geometry
              /\ Raise(Error("GeometryError"))
    /\ UNCHANGED <<store, var_pts, submesh_types, mesh, disc, tau, t_eval,
                   solution, pvs, plotgrid, plt, solveCalls, caller>>

\* lines 25-37: mesh = pybamm.Mesh(geometry, submesh_types, var_pts)
BuildMesh ==
    /\ pc = "mesh"
    /\ Logged("Mesh", {"Geometry"})
    /\ LET res == MeshBuild(geometry, submesh_types, var_pts)
       IN  IF res.ok
           THEN /\ mesh' = res.mesh
                /\ pc' = Succ(pc)
                /\ err' = err
           ELSE /\ mesh' = mesh
                /\ Raise(Error(res.err))
    /\ UNCHANGED <<store, var_pts, submesh_types, geometry, disc, tau, t_eval,
                   solution, pvs, plotgrid, plt, solveCalls, caller>>

\* lines 39-41: disc.process_model(model, check_model=False)
DiscretiseModel ==
    /\ pc = "disc"
    /\ Logged("Discretiser", {"Parameters", "Mesh"})
    /\ \E ok \in BOOLEAN :
         IF ok
         THEN /\ disc' = Discretise(mesh)
              /\ pc' = Succ(pc)
              /\ err' = err
         ELSE /\ disc' = disc
              /\ Raise(Error("DiscretisationError"))
    /\ UNCHANGED <<store, var_pts, submesh_types, geometry, mesh, tau, t_eval,
                   solution, pvs, plotgrid, plt, solveCalls, caller>>

\* lines 43-44: tau = param.evaluate(tau_discharge)
EvalTau ==
    /\ pc = "tau"
    /\ Logged("Solver", {"Parameters"})
    /\ LET r == Evaluate(store.values, tau_discharge)
       IN  IF r.ok
           THEN /\ tau' = [set |-> TRUE, val |-> r.val]
                /\ pc' = Succ(pc)
                /\ err' = err
           ELSE /\ tau' = tau
                /\ Raise(Error(r.err))
    /\ UNCHANGED <<store, var_pts, submesh_types, geometry, mesh, disc, t_eval,
                   solution, pvs, plotgrid, plt, solveCalls, caller>>

\* the steps of the internal grid at which the implicit step may fail
DivergeSteps(internal) == {2, Len(internal)}

TEvalShort(tauval) == Linspace(0, HourSeconds \div tauval, NumTEval - 1)

\* lines 47-48: t_end = 3600 / tau; t_eval = np.linspace(0, t_end, 120)
TEval(tauval) == Linspace(0, HourSeconds \div tauval, NumTEval)

\* lines 46-50: t_end, t_eval, solver.solve(model, t_eval)
Solve ==
    /\ pc = "solve"
    /\ IF tau.val = 0
       THEN /\ Raise(Error("ZeroDivisionError"))
            /\ UNCHANGED <<t_eval, solution, log, solveCalls>>
       ELSE LET te == TEval(tau.val)
            IN  /\ t_eval' = te
                /\ solveCalls' = solveCalls + 1
                /\ Logged("Solver", {"Discretiser"})
                /\ IF ~StrictlyIncreasing(te)
                   THEN /\ Raise(Error("SolverError"))
                        /\ solution' = solution
                   ELSE \E r \in 1..MaxRefine :
                          LET internal == Refine(te, r)
                          IN  \/ \E seed \in 1..NumSeeds :
                                   /\ solution' = [set |-> TRUE,
                                                   t |-> Resample(internal, te, r),
                                                   y |-> seed]
                                   /\ pc' = Succ(pc)
                                   /\ err' = err
                              \/ \E k \in DivergeSteps(internal) :
                                   /\ solution' = solution
                                   /\ Raise([type |-> "SolverDivergenceError",
                                             partial |-> SubSeq(internal, 1, k - 1)])
    /\ UNCHANGED <<store, var_pts, submesh_types, geometry, mesh, disc, tau,
                   pvs, plotgrid, plt, caller>>

\* lines 52-76: the four ProcessedVariable bindings, in source order
Bind ==
    /\ pc = "bind"
    /\ Logged("FieldReconstructor", {"Discretiser", "Solver", "Mesh"})
    /\ LET n == Cardinality(pvs) + 1
       IN  /\ pvs' = pvs \cup {PVNames[n]}
           /\ pc' = IF n = Len(PVNames) THEN Succ(pc) ELSE pc
    /\ UNCHANGED <<store, var_pts, submesh_types, geometry, mesh, disc, tau,
                   t_eval, solution, plotgrid, plt, err, solveCalls, caller>>

\* a variant that takes the extent from y_sol[-2]
PlotAxisShort(nodes) == Linspace(0, nodes[Len(nodes) - 1], NumPlot)

\* lines 77-80: the plotting grid spans [0, y_sol[-1]] x [0, z_sol[-1]]
PlotAxis(nodes) == Linspace(0, Last(nodes), NumPlot)

\* lines 77-86: l_y, l_z, y_plot, z_plot and the tab markers
Grid ==
    /\ pc = "grid"
    /\ Logged("Visualization", {"FieldReconstructor", "Parameters"})
    /\ LET yp == Evaluate(store.values, centre_y_tab_p)
           zp == Evaluate(store.values, centre_z_tab_p)
           wp == Evaluate(store.values, l_tab_p)
       IN  IF ~yp.ok THEN Raise(Error(yp.err)) /\ plotgrid' = plotgrid
           ELSE IF ~zp.ok THEN Raise(Error(zp.err)) /\ plotgrid' = plotgrid
           ELSE IF ~wp.ok THEN Raise(Error(wp.err)) /\ plotgrid' = plotgrid
           ELSE /\ plotgrid' = [set |-> TRUE,
                                l_y |-> Last(mesh.y_nodes),
                                l_z |-> Last(mesh.z_nodes),
                                y_plot |-> PlotAxis(mesh.y_nodes),
                                z_plot |-> PlotAxis(mesh.z_nodes),
                                tab_start |-> yp.val - (wp.val \div 2),
                                tab_end |-> yp.val + (wp.val \div 2),
                                z_pos_tab |-> zp.val]
                /\ pc' = Succ(pc)
                /\ err' = err
    /\ UNCHANGED <<store, var_pts, submesh_types, geometry, mesh, disc, tau,
                   t_eval, solution, pvs, plt, solveCalls, caller>>

\* the times plot is called with: 800 / tau (line 174), and times before,
\* between, on and after the samples
PlotTimes ==
    {PlotSeconds \div tau.val, 0 - 7, 0, t_eval[2] \div 2, (t_eval[2] \div 2) + 1,
     t_eval[2], Last(t_eval) - 1, Last(t_eval), Last(t_eval) + 9}

\* a variant of line 95 that subtracts t from solution.t in place
PlotStartInPlace ==
    /\ pc = "plot"
    /\ Logged("Visualization", {"Solver"})
    /\ \E t \in PlotTimes :
         /\ plt' = [active |-> TRUE, t |-> t, ind |-> ArgminAbs(solution.t, t),
                    queries |-> <<>>]
         /\ solution' = [solution EXCEPT
                            !.t = [i \in 1..Len(solution.t) |-> solution.t[i] - t]]
    /\ pc' = "plot_q"
    /\ UNCHANGED <<store, var_pts, submesh_types, geometry, mesh, disc, tau,
                   t_eval, pvs, plotgrid, err, solveCalls, caller>>

\* lines 89-95: plot(t) finds the index of the sample nearest to t
PlotStart ==
    /\ pc = "plot"
    /\ Logged("Visualization", {"Solver"})
    /\ \E t \in PlotTimes :
         plt' = [active |-> TRUE, t |-> t, ind |-> ArgminAbs(solution.t, t),
                 queries |-> <<>>]
    /\ pc' = "plot_q"
    /\ UNCHANGED <<store, var_pts, submesh_types, geometry, mesh, disc, tau,
                   t_eval, solution, pvs, plotgrid, err, solveCalls, caller>>

\* the time every panel is queried at: solution.t[ind]
QueryTime(sol, p) == sol.t[p.ind]

\* lines 97-171: the four panels, each a grid query of one variable
PlotQuery ==
    /\ pc = "plot_q"
    /\ Logged("Visualization", {"FieldReconstructor", "Solver", "Mesh"})
    /\ LET n == Len(plt.queries) + 1
           tq == QueryTime(solution, plt)
           res == PVGridCall(solution, mesh, disc, PVNames[n],
                             plotgrid.y_plot, plotgrid.z_plot, tq)
       IN  IF res.ok
           THEN /\ plt' = [plt EXCEPT !.queries =
                              Append(@, [pv |-> PVNames[n], t |-> tq, res |-> res])]
                /\ pc' = IF n = Len(PVNames) THEN Succ("plot") ELSE pc
                /\ err' = err
           ELSE /\ plt' = plt
                /\ Raise(Error(res.err))
    /\ UNCHANGED <<store, var_pts, submesh_types, geometry, mesh, disc, tau,
                   t_eval, solution, pvs, plotgrid, solveCalls, caller>>

\* line 175: plt.show()
Show ==
    /\ pc = "show"
    /\ pc' = Succ(pc)
    /\ UNCHANGED <<store, var_pts, submesh_types, geometry, mesh, disc, tau,
                   t_eval, solution, pvs, plotgrid, plt, err, log, solveCalls,
                   caller>>

----------------------------------------------------------------------------
(* An independent caller querying the bound ProcessedVariables *)

\* corners, a node, a point between nodes, and points outside the extent
QueryPoints(m) ==
    LET l_y == Last(m.y_nodes)
        l_z == Last(m.z_nodes)
        y2 == m.y_nodes[2]
        z2 == m.z_nodes[2]
    IN  {<<0, 0>>, <<l_y, l_z>>, <<y2, z2>>, <<y2 + 1, z2 + 1>>,
         <<l_y + 1, l_z>>, <<y2, 0 - 1>>}

\* sample times and a time between samples
QueryTimes(sol) == {sol.t[1], sol.t[2], sol.t[2] - 1}

\* one scalar query pv(y, z, t); an OutOfDomainError is caught by the caller
Query ==
    /\ pc # "aborted"
    /\ pvs # {}
    /\ caller.n < MaxQueries
    /\ \E name \in pvs, pt \in QueryPoints(mesh), t \in QueryTimes(solution) :
         caller' = [n |-> caller.n + 1,
                    last |-> <<[pv |-> name, y |-> pt[1], z |-> pt[2], t |-> t,
                                res |-> PVCall(solution, mesh, disc, name,
                                               pt[1], pt[2], t)]>>]
    /\ UNCHANGED <<pc, store, var_pts, submesh_types, geometry, mesh, disc, tau,
                   t_eval, solution, pvs, plotgrid, plt, err, log, solveCalls>>

----------------------------------------------------------------------------
(* Input configurations *)

\* resolutions: the script's, the minimum counts, and counts below them
VarPtsChoices ==
    {ScriptVarPts,
     [ScriptVarPts EXCEPT !.y = 3, !.z = 3],
     [ScriptVarPts EXCEPT !.r_n = 2],
     [ScriptVarPts EXCEPT !.x_n = 1],
     [ScriptVarPts EXCEPT !.y = 2],
     [ScriptVarPts EXCEPT !.z = 2]}

SubmeshChoices ==
    {DefaultSubmeshTypes,
     [DefaultSubmeshTypes EXCEPT !["current collector"] = "Uniform1DSubMesh"]}

\* parameter sets: complete, tab parameters missing, timescale missing, cyclic
StoreComplete ==
    [n \in Names |->
        CASE n = "C-rate" -> Lit(2)
          [] n = "I_typ" -> Bin("*", Ref("C-rate"), Lit(2))
          [] n = "tau_d" -> Bin("+", Ref("I_typ"), Lit(1))]
StoreNoCurrent == [StoreComplete EXCEPT !["I_typ"] = Undef, !["tau_d"] = Lit(1)]
StoreMissing == [StoreComplete EXCEPT !["I_typ"] = Undef]
StoreCyclic == [StoreComplete EXCEPT !["I_typ"] = Ref("tau_d")]

StoreChoices == {StoreComplete, StoreNoCurrent, StoreMissing, StoreCyclic}

\* every expression of depth at most two over the names
ExprOptions ==
    {Undef} \cup {Lit(v) : v \in 1..MaxLit} \cup {Ref(n) : n \in Names}
    \cup {Bin(f, Ref(a), Ref(b)) : f \in {"+", "*"}, a \in Names, b \in Names}
    \cup {Bin("+", Ref(a), Lit(1)) : a \in Names}

AllStores ==
    {[n \in Names |-> IF n = "C-rate" THEN c ELSE IF n = "I_typ" THEN i ELSE d] :
        c \in {Undef, Lit(MaxLit)}, i \in ExprOptions, d \in ExprOptions}

InitWith(S, V, T) ==
    /\ pc = "load"
    /\ store \in {[processed |-> FALSE, values |-> s] : s \in S}
    /\ var_pts \in V
    /\ submesh_types \in T
    /\ geometry = NoGeometry
    /\ mesh = NoMesh
    /\ disc = NoDisc
    /\ tau = [set |-> FALSE, val |-> 0]
    /\ t_eval = <<>>
    /\ solution = NoSolution
    /\ pvs = {}
    /\ plotgrid = NoPlotGrid
    /\ plt = NoPlot
    /\ err = NoErr
    /\ log = <<>>
    /\ solveCalls = 0
    /\ caller = NoCaller

Init == InitWith(StoreChoices, VarPtsChoices, SubmeshChoices)

Next ==
    \/ Load
    \/ ProcessParameters
    \/ ProcessGeometry
    \/ BuildMesh
    \/ DiscretiseModel
    \/ EvalTau
    \/ Solve
    \/ Bind
    \/ Grid
    \/ PlotStart
    \/ PlotQuery
    \/ Show

Spec == Init /\ [][Next]_vars

\* the pipeline with a caller querying the variables it has bound
InitQuery ==
    InitWith({StoreComplete, StoreMissing},
             {ScriptVarPts, [ScriptVarPts EXCEPT !.y = 2]},
             {DefaultSubmeshTypes})

NextQuery == Next \/ Query

SpecQuery == InitQuery /\ [][NextQuery]_vars

\* parameter resolution over every bounded parameter set
InitParam == InitWith(AllStores, {ScriptVarPts}, {DefaultSubmeshTypes})

NextParam ==
    \/ Load
    \/ ProcessParameters
    \/ ProcessGeometry
    \/ BuildMesh
    \/ DiscretiseModel
    \/ EvalTau

SpecParam == InitParam /\ [][NextParam]_vars

----------------------------------------------------------------------------
(* Properties *)

\* the artifact of a stage has been published
Published(stage) ==
    CASE stage = "Parameters" -> store.processed
      [] stage = "Geometry" -> geometry.set
      [] stage = "Mesh" -> mesh.set
      [] stage = "Discretiser" -> disc.set
      [] stage = "Solver" -> solution.set
      [] stage = "FieldReconstructor" -> pvs = {PVNames[i] : i \in 1..Len(PVNames)}
      [] OTHER -> TRUE

StagesRun == {log[i].stage : i \in 1..Len(log)}

\* C1: the stages run in the order Parameters, Geometry, Mesh, Discretiser,
\* Solver, Field Reconstructor, Visualization: the first stage to run is
\* Parameters, a stage is entered only from itself or from the stage just
\* before it, and only once that stage has published its artifact; every
\* artifact a stage reads is published and belongs to an earlier stage.
C1_StagesInOrder ==
    \A i \in 1..Len(log) :
        /\ i = 1 => log[i].stage = Stages[1]
        /\ i > 1 =>
             /\ Rank(log[i - 1].stage) <= Rank(log[i].stage)
             /\ Rank(log[i].stage) <= Rank(log[i - 1].stage) + 1
             /\ log[i].stage # log[i - 1].stage => Published(log[i - 1].stage)
        /\ \A r \in log[i].reads :
             /\ Rank(r) < Rank(log[i].stage)
             /\ Published(r)

\* a complete run: every stage has run and the script has ended
C1_Witness ==
    /\ pc = "done"
    /\ StagesRun = {Stages[i] : i \in 1..Len(Stages)}

\* C2: when solve has returned, solution.t is strictly increasing and equal
\* to t_eval: 120 samples, the first at 0, whatever internal steps were taken.
C2_SolutionTimesAreTEval ==
    solution.set =>
        /\ solution.t = t_eval
        /\ Len(solution.t) = NumTEval
        /\ solution.t[1] = 0
        /\ StrictlyIncreasing(solution.t)

\* a returned solution
C2_Witness ==
    /\ solution.set
    /\ solveCalls = 1
    /\ StrictlyIncreasing(t_eval)
    /\ Len(solution.t) = NumTEval

\* C8: building the mesh raises MeshError exactly when a 1D variable has fewer
\* than 2 points, y or z has fewer than 3, or a domain's submesh type is not
\* one for its dimensionality; a MeshError ends the run before discretisation
\* or solve; the script's var_pts with the default types raise none.
C8_MeshErrorOnBadResolution ==
    LET bad == \/ \E v \in {"x_n", "x_s", "x_p", "r_n", "r_p"} : var_pts[v] < 2
               \/ var_pts.y < 3
               \/ var_pts.z < 3
               \/ submesh_types["current collector"] # "ScikitUniform2DSubMesh"
               \/ \E d \in Domains1D : submesh_types[d] # "Uniform1DSubMesh"
    IN  /\ "Mesh" \in StagesRun => (err.type = "MeshError" <=> bad)
        /\ "Mesh" \in StagesRun => (mesh.set <=> ~bad)
        /\ err.type = "MeshError" =>
             /\ pc = "aborted"
             /\ ~disc.set /\ ~solution.set /\ solveCalls = 0
             /\ "Discretiser" \notin StagesRun /\ "Solver" \notin StagesRun
        /\ (var_pts = ScriptVarPts /\ submesh_types = DefaultSubmeshTypes)
             => err.type # "MeshError"

\* a planar count of 2 was refused
C8_Witness ==
    /\ err.type = "MeshError"
    /\ var_pts.y = 2
    /\ \A v \in SpatialVars1D : var_pts[v] >= 2

\* C9: solve is invoked at most once; a SolverDivergenceError ends the run
\* after that one call, no Solution is published, and the error carries the
\* converged samples: a non-empty strictly increasing prefix starting at
\* t_eval[1] and ending before the last requested time.
C9_NoRetry ==
    /\ solveCalls <= 1
    /\ err.type = "SolverDivergenceError" =>
         /\ pc = "aborted"
         /\ solveCalls = 1
         /\ ~solution.set
         /\ Len(err.partial) >= 1
         /\ err.partial[1] = t_eval[1]
         /\ StrictlyIncreasing(err.partial)
         /\ Last(err.partial) < Last(t_eval)

\* the implicit step failed after at least one converged step
C9_Witness ==
    /\ err.type = "SolverDivergenceError"
    /\ Len(err.partial) > 1
    /\ solveCalls = 1

\* C10: plot(t) uses the index of the sample nearest to t, the lowest on a
\* tie; every panel is queried at solution.t[ind], in the order of the four
\* variables, and a completed plot has queried all four.
C10_PlotQueriesNearestSample ==
    plt.active =>
        /\ plt.ind \in 1..Len(solution.t)
        /\ \A j \in 1..Len(solution.t) :
             Abs(solution.t[plt.ind] - plt.t) <= Abs(solution.t[j] - plt.t)
        /\ \A j \in 1..(plt.ind - 1) :
             Abs(solution.t[j] - plt.t) > Abs(solution.t[plt.ind] - plt.t)
        /\ \A i \in 1..Len(plt.queries) :
             /\ plt.queries[i].pv = PVNames[i]
             /\ plt.queries[i].t = solution.t[plt.ind]
             /\ \E k \in 1..Len(solution.t) : plt.queries[i].t = solution.t[k]
        /\ pc \in {"show", "done"} => Len(plt.queries) = Len(PVNames)

\* a completed plot for a time after the last sample
C10_Witness ==
    /\ pc = "done"
    /\ plt.t > Last(solution.t)
    /\ plt.ind = Len(solution.t)
    /\ Len(plt.queries) = Len(PVNames)

\* the names an expression mentions
RECURSIVE RefsOf(_)
RefsOf(e) ==
    CASE e.op = "ref" -> {e.name}
      [] e.op = "bin" -> RefsOf(e.args[1]) \cup RefsOf(e.args[2])
      [] OTHER -> {}

\* the names reachable from the set S through the definitions of st
RECURSIVE ReachableFrom(_, _)
ReachableFrom(st, S) ==
    LET more == S \cup UNION {RefsOf(st[n]) : n \in S}
    IN  IF more = S THEN S ELSE ReachableFrom(st, more)

Reachable(st, e) == ReachableFrom(st, RefsOf(e))

AllDefined(st, e) == \A n \in Reachable(st, e) : st[n].op # "undef"

\* no reachable name reaches itself
Acyclic(st, e) ==
    \A n \in Reachable(st, e) : n \notin ReachableFrom(st, RefsOf(st[n]))

TauEvaluated == Len(log) > 0 /\ Last(log).stage = "Solver"

\* C7: evaluate(tau_discharge) returns a number exactly when every name
\* reachable from the expression is defined and none of them reaches itself;
\* an UnresolvedParameterError means a reachable name is undefined, a
\* CyclicParameterError means a reachable name reaches itself, a failure has
\* one of these two types, and the call always returns.
C7_EvaluateResolvesOrFails ==
    TauEvaluated =>
        LET st == store.values
            fine == AllDefined(st, tau_discharge) /\ Acyclic(st, tau_discharge)
        IN  /\ tau.set <=> fine
            /\ tau.set <=> pc = "solve"
            /\ tau.set <=> err.type = None
            /\ ~tau.set => err.type \in {"UnresolvedParameterError",
                                         "CyclicParameterError"}
            /\ err.type = "UnresolvedParameterError" =>
                 ~AllDefined(st, tau_discharge)
            /\ err.type = "CyclicParameterError" => ~Acyclic(st, tau_discharge)
            /\ (~AllDefined(st, tau_discharge) /\ Acyclic(st, tau_discharge))
                 => err.type = "UnresolvedParameterError"
            /\ (AllDefined(st, tau_discharge) /\ ~Acyclic(st, tau_discharge))
                 => err.type = "CyclicParameterError"

\* a cycle through two names was detected
C7_Witness ==
    /\ TauEvaluated
    /\ err.type = "CyclicParameterError"
    /\ store.values["tau_d"].op = "bin"
    /\ "I_typ" \in RefsOf(store.values["tau_d"])
    /\ "tau_d" \in RefsOf(store.values["I_typ"])

StageErrors == {"UnresolvedParameterError", "CyclicParameterError",
                "GeometryError", "MeshError", "DiscretisationError",
                "SolverDivergenceError", "SolverError"}

CallerFailed == caller.n > 0 /\ ~caller.last[1].res.ok

\* the run has ended with an error and nothing more of it runs
C3_AbortedIsFinal ==
    pc = "aborted" =>
        /\ pc' = pc /\ err' = err /\ log' = log /\ solveCalls' = solveCalls
        /\ geometry' = geometry /\ mesh' = mesh /\ disc' = disc
        /\ solution' = solution /\ pvs' = pvs /\ plt' = plt

\* a caller's failed query changes nothing but the caller's own record
C3_QueryErrorChangesNothing ==
    (caller' # caller /\ ~caller'.last[1].res.ok) =>
        UNCHANGED <<pc, store, geometry, mesh, disc, tau, t_eval, solution,
                    pvs, plotgrid, plt, err, log, solveCalls>>

\* what holds in every state of a run that has seen an error
C3_ErrorStates ==
    /\ err.type # None <=> pc = "aborted"
    /\ (pc = "aborted" /\ Last(log).stage # "Visualization") =>
         /\ err.type \in StageErrors
         /\ \A k \in 1..(Len(Stages) - 1) :
              /\ Rank(Last(log).stage) <= k => ~Published(Stages[k])
              /\ Rank(Last(log).stage) < k => Stages[k] \notin StagesRun
    /\ pc = "aborted" => "Visualization" \notin StagesRun \/ solution.set
    /\ CallerFailed =>
         /\ caller.last[1].res.err = "OutOfDomainError"
         /\ solution.set /\ mesh.set /\ disc.set
         /\ caller.last[1].pv \in pvs
         /\ err.type # "OutOfDomainError"
         /\ \A name \in pvs :
              PVCall(solution, mesh, disc, name, 0, 0, solution.t[1]).ok

\* C3: a stage that fails ends the run: no later stage runs, and neither the
\* failing stage's artifact nor any later one (Discretised Model, Solution)
\* is published; an error raised by a caller's query on one Processed
\* Variable leaves the run, the Solution, the Mesh and the bound variables
\* as they were, and every bound variable still answers queries.
C3_ErrorsAbortQueriesDoNot ==
    /\ []C3_ErrorStates
    /\ [][C3_AbortedIsFinal /\ C3_QueryErrorChangesNothing]_vars

\* a caller's query failed and the whole plot still completed
C3_Witness ==
    /\ CallerFailed
    /\ pc = "done"
    /\ Len(plt.queries) = Len(PVNames)
    /\ solution.set

\* C4: once the Solution exists, no step (binding a variable, a caller's
\* query, the index search and the four grid queries of plot) changes the
\* Solution or the Mesh.
C4_SolutionAndMeshFrozen ==
    [][solution.set => (solution' = solution /\ mesh' = mesh)]_vars

\* all four variables bound, a caller's query and plot's queries all made
C4_Witness ==
    /\ pvs = {PVNames[i] : i \in 1..Len(PVNames)}
    /\ caller.n > 0
    /\ Len(plt.queries) = Len(PVNames)
    /\ solution.set /\ mesh.set

OnBoundary(q) ==
    /\ q.y \in {0, geometry.l_y} /\ q.z \in {0, geometry.l_z}
    /\ solution.t[1] <= q.t /\ q.t <= Last(solution.t)

StrictlyOutside(q) ==
    q.y < 0 \/ q.y > geometry.l_y \/ q.z < 0 \/ q.z > geometry.l_z

\* C5: a query at a corner of [0, l_y] x [0, l_z] returns a value; a query
\* strictly outside the extent raises OutOfDomainError and returns no value;
\* the plotting grid starts at 0 and ends at l_y and l_z, and every grid
\* query of plot returns the full NumPlot x NumPlot array; a caller's query
\* at the corner (0, 0) and plot's query of the same variable at the same
\* time return the same value.
C5_BoundaryAndOutside ==
    /\ caller.n > 0 =>
         LET q == caller.last[1]
         IN  /\ OnBoundary(q) => q.res.ok
             /\ StrictlyOutside(q) =>
                  /\ ~q.res.ok
                  /\ q.res.err = "OutOfDomainError"
             /\ q.res.ok <=> (~StrictlyOutside(q) /\ solution.t[1] <= q.t
                              /\ q.t <= Last(solution.t))
             /\ (plt.active /\ q.y = 0 /\ q.z = 0
                 /\ q.t = solution.t[plt.ind]
                 /\ PVIndex(q.pv) <= Len(plt.queries)) =>
                  q.res.val = plt.queries[PVIndex(q.pv)].res.corners[1]
    /\ plotgrid.set =>
         /\ plotgrid.y_plot[1] = 0 /\ Last(plotgrid.y_plot) = geometry.l_y
         /\ plotgrid.z_plot[1] = 0 /\ Last(plotgrid.z_plot) = geometry.l_z
         /\ Len(plotgrid.y_plot) = NumPlot /\ Len(plotgrid.z_plot) = NumPlot
    /\ \A i \in 1..Len(plt.queries) :
         /\ plt.queries[i].res.ok
         /\ plt.queries[i].res.shape = <<NumPlot, NumPlot>>
    /\ err.type # "OutOfDomainError"

\* a query beyond l_y was refused, and plot's corner queries went through
C5_Witness ==
    /\ caller.n > 0
    /\ caller.last[1].y > geometry.l_y
    /\ ~caller.last[1].res.ok
    /\ Len(plt.queries) = Len(PVNames)

IndexOf(xs, x) == CHOOSE i \in 1..Len(xs) : xs[i] = x

IsNode(xs, x) == \E i \in 1..Len(xs) : xs[i] = x

\* C6: a query at a mesh node and a sample time returns the stored entry of
\* solution.y for that variable, node and sample; the corner values of each
\* grid query of plot are the stored entries of the corner nodes at sample ind.
C6_ExactAtSamplePoints ==
    /\ caller.n > 0 =>
         LET q == caller.last[1]
         IN  (IsNode(mesh.y_nodes, q.y) /\ IsNode(mesh.z_nodes, q.z)
              /\ IsNode(solution.t, q.t)) =>
                 /\ q.res.ok
                 /\ q.res.val =
                      SolY(solution,
                           Row(disc, PVIndex(q.pv), IndexOf(mesh.y_nodes, q.y),
                               IndexOf(mesh.z_nodes, q.z)),
                           IndexOf(solution.t, q.t))
    /\ \A i \in 1..Len(plt.queries) :
         plt.queries[i].res.corners =
            << SolY(solution, Row(disc, i, 1, 1), plt.ind),
               SolY(solution, Row(disc, i, disc.ny, 1), plt.ind),
               SolY(solution, Row(disc, i, 1, disc.nz), plt.ind),
               SolY(solution, Row(disc, i, disc.ny, disc.nz), plt.ind) >>

\* an interior node queried at the second sample
C6_Witness ==
    /\ caller.n > 0
    /\ caller.last[1].y = mesh.y_nodes[2]
    /\ caller.last[1].z = mesh.z_nodes[2]
    /\ caller.last[1].t = solution.t[2]
    /\ caller.last[1].res.ok

====
